---- MODULE Spec2Model ----
(***************************************************************************)
(* A model of the zonememstat crate (src/src/lib.rs).                      *)
(*                                                                         *)
(* Text is modelled as sequences of one-character strings, so that         *)
(* split_whitespace and the numeric parsers are computed character by      *)
(* character, as the standard library computes them.  Integers are kept as *)
(* sequences of decimal digits (most significant first, no leading zero),  *)
(* so that the u64 and u32 ranges are the real ones.                       *)
(***************************************************************************)
EXTENDS Integers, Sequences, FiniteSets, TLC

VARIABLES
    fields,     \* history: the tokens the line x was written from
    x,          \* parse_line: the &str argument
    parsed,     \* parse_line: NotCalled, or what the call produced
    pc,         \* stat(): position of the async fn
    child,      \* the spawned zonememstat process
    outPipe,    \* stdout lines written by the child and not yet read
    errPipe,    \* stderr lines written by the child and not yet read
    written,    \* history: every stdout line the child has written, in order
    read,       \* history: every stdout line next() has yielded, in order
    nerr,       \* history: number of stderr lines the child has written
    errSeen,    \* history: TRUE once a stream item was a stderr line
    status,     \* exit status of the child, -1 while it has none
    result,     \* get_state: the `result` vector
    ret         \* what stat() gave its caller

vars == <<fields, x, parsed, pc, child, outPipe, errPipe, written, read,
          nerr, errSeen, status, result, ret>>

parseVars == <<fields, x, parsed>>
statVars == <<pc, child, outPipe, errPipe, written, read, nerr, errSeen,
              status, result, ret>>

----------------------------------------------------------------------------
(* Bounds of the model.                                                    *)

MaxFields == 8      \* longest line, in whitespace-separated fields
MaxStdout == 2      \* stdout lines one child writes
MaxStderr == 1      \* stderr lines one child writes
MaxStatus == 1      \* largest exit status of the child

----------------------------------------------------------------------------
(* Characters.                                                             *)

DigitChars == {"0", "1", "2", "3", "4", "5", "6", "7", "8", "9"}

DigitVal(c) ==
    CASE c = "0" -> 0 [] c = "1" -> 1 [] c = "2" -> 2 [] c = "3" -> 3
      [] c = "4" -> 4 [] c = "5" -> 5 [] c = "6" -> 6 [] c = "7" -> 7
      [] c = "8" -> 8 [] c = "9" -> 9

\* char::is_whitespace, on the characters a line of text can hold
is_whitespace(c) == c \in {" ", "\t"}

\* u8::to_ascii_lowercase, on the letters of "infinity" and "nan"
to_ascii_lowercase(c) ==
    CASE c = "I" -> "i" [] c = "N" -> "n" [] c = "F" -> "f" [] c = "T" -> "t"
      [] c = "Y" -> "y" [] c = "A" -> "a" [] OTHER -> c

Lower(s) == [i \in 1..Len(s) |-> to_ascii_lowercase(s[i])]

----------------------------------------------------------------------------
(* str::split_whitespace (lib.rs:84-85): the maximal runs of non-whitespace *)
(* characters, in order; empty pieces are not produced.                    *)

RECURSIVE SplitFrom(_, _, _)
SplitFrom(s, i, cur) ==
    IF i > Len(s)
    THEN IF cur = <<>> THEN <<>> ELSE <<cur>>
    ELSE IF is_whitespace(s[i])
         THEN IF cur = <<>>
              THEN SplitFrom(s, i + 1, <<>>)
              ELSE <<cur>> \o SplitFrom(s, i + 1, <<>>)
         ELSE SplitFrom(s, i + 1, Append(cur, s[i]))

split_whitespace(s) == SplitFrom(s, 1, <<>>)

----------------------------------------------------------------------------
(* Unsigned integer parsing: <u64 as FromStr>::from_str and                *)
(* <u32 as FromStr>::from_str, reached through str::parse at               *)
(* lib.rs:100-103.  An optional leading "+", then one or more decimal      *)
(* digits, accumulated most significant first with checked arithmetic; an  *)
(* empty string, a lone sign, any other character, or a value above the    *)
(* type's MAX is an Err.                                                   *)

U64_MAX == <<1,8,4,4,6,7,4,4,0,7,3,7,0,9,5,5,1,6,1,5>>
U32_MAX == <<4,2,9,4,9,6,7,2,9,5>>

\* a > b, for digit sequences without leading zeros
RECURSIVE LexGreater(_, _, _)
LexGreater(a, b, i) ==
    IF i > Len(a) THEN FALSE
    ELSE IF a[i] # b[i] THEN a[i] > b[i]
    ELSE LexGreater(a, b, i + 1)

BigGreater(a, b) ==
    IF Len(a) # Len(b) THEN Len(a) > Len(b) ELSE LexGreater(a, b, 1)

\* acc * 10 + d
MulAdd10(acc, d) == IF acc = <<0>> THEN <<d>> ELSE Append(acc, d)

ParseErr == [ok |-> FALSE]
ParseOk(v) == [ok |-> TRUE, val |-> v]

RECURSIVE Accumulate(_, _, _, _)
Accumulate(s, i, acc, max) ==
    IF i > Len(s) THEN ParseOk(acc)
    ELSE IF s[i] \notin DigitChars THEN ParseErr
    ELSE LET next == MulAdd10(acc, DigitVal(s[i]))
         IN  IF BigGreater(next, max) THEN ParseErr
             ELSE Accumulate(s, i + 1, next, max)

from_str_radix10(s, max) ==
    IF s = <<>> THEN ParseErr
    ELSE IF Len(s) = 1 /\ s[1] \in {"+", "-"} THEN ParseErr
    ELSE LET digits == IF s[1] = "+" THEN Tail(s) ELSE s
         IN  Accumulate(digits, 1, <<0>>, max)

parse_u64(s) == from_str_radix10(s, U64_MAX)

\* parse_u32 with the bug of a NOVER field declared u64
parse_u32_as_u64(s) == from_str_radix10(s, U64_MAX)

parse_u32(s) == from_str_radix10(s, U32_MAX)

----------------------------------------------------------------------------
(* Floating-point parsing: <f64 as FromStr>::from_str, reached through     *)
(* str::parse::<f64> at lib.rs:87.  Grammar: an optional sign, then either *)
(* "inf", "infinity" or "nan" in any letter case, or a decimal number      *)
(* (digits, optional "." and digits, at least one digit in all) with an    *)
(* optional exponent ("e" or "E", optional sign, one or more digits).      *)
(* The value is kept as the decimal the token denotes,                     *)
(*      (-1)^neg * digits * 10^exp,                                        *)
(* with digits stripped of leading and trailing zeros; this names the      *)
(* nearest double uniquely for tokens of at most 15 significant digits.    *)
(* Magnitudes of decimal order above 309 round to infinity and those below *)
(* -323 to zero.                                                           *)

RECURSIVE DigitPrefixLen(_, _)
DigitPrefixLen(s, i) ==
    IF i > Len(s) \/ s[i] \notin DigitChars THEN i - 1
    ELSE DigitPrefixLen(s, i + 1)

\* the leading decimal digits of s, and what follows them
take_digits(s) == SubSeq(s, 1, DigitPrefixLen(s, 1))
skip_digits(s) == SubSeq(s, DigitPrefixLen(s, 1) + 1, Len(s))

ToDigits(s) == [i \in 1..Len(s) |-> DigitVal(s[i])]

RECURSIVE StripLeadingZeros(_)
StripLeadingZeros(d) ==
    IF d # <<>> /\ d[1] = 0 THEN StripLeadingZeros(Tail(d)) ELSE d

RECURSIVE TrailingZeros(_)
TrailingZeros(d) ==
    IF d # <<>> /\ d[Len(d)] = 0
    THEN 1 + TrailingZeros(SubSeq(d, 1, Len(d) - 1))
    ELSE 0

\* the exponent's digits, saturating as the library does
RECURSIVE ExpValue(_, _, _)
ExpValue(s, i, acc) ==
    IF i > Len(s) THEN acc
    ELSE ExpValue(s, i + 1,
                  IF acc < 65536 THEN acc * 10 + DigitVal(s[i]) ELSE acc)

F64Inf(neg) == [kind |-> "inf", neg |-> neg]
F64NaN(neg) == [kind |-> "nan", neg |-> neg]
F64Zero(neg) == [kind |-> "num", neg |-> neg, digits |-> <<>>, exp |-> 0]

\* digs has neither a leading nor a trailing zero
Rounded(neg, digs, ex) ==
    IF digs = <<>> THEN F64Zero(neg)
    ELSE IF Len(digs) + ex > 309 THEN F64Inf(neg)
    ELSE IF Len(digs) + ex < -323 THEN F64Zero(neg)
    ELSE [kind |-> "num", neg |-> neg, digits |-> digs, exp |-> ex]

Normal(neg, lead, e) ==
    Rounded(neg, SubSeq(lead, 1, Len(lead) - TrailingZeros(lead)),
            e + TrailingZeros(lead))

Decimal(neg, mant, e) == Normal(neg, StripLeadingZeros(mant), e)

\* r: the digits of the exponent, which must be all that is left
exp_value(neg, ip, fp, eNeg, r) ==
    IF r = <<>> \/ skip_digits(r) # <<>> THEN ParseErr
    ELSE ParseOk(Decimal(neg, ToDigits(ip \o fp),
                         (IF eNeg THEN 0 - ExpValue(r, 1, 0)
                                  ELSE ExpValue(r, 1, 0)) - Len(fp)))

\* r: what follows the "e"
parse_exp_sign(neg, ip, fp, r) ==
    IF r # <<>> /\ r[1] \in {"+", "-"}
    THEN exp_value(neg, ip, fp, r[1] = "-", Tail(r))
    ELSE exp_value(neg, ip, fp, FALSE, r)

\* ip, fp: the digits before and after the point; r: what follows them
parse_exponent(neg, ip, fp, r) ==
    IF Len(ip) + Len(fp) = 0 THEN ParseErr
    ELSE IF r = <<>>
         THEN ParseOk(Decimal(neg, ToDigits(ip \o fp), 0 - Len(fp)))
    ELSE IF r[1] \in {"e", "E"} THEN parse_exp_sign(neg, ip, fp, Tail(r))
    ELSE ParseErr

\* ip: the digits before the point; r: what follows them
parse_fraction(neg, ip, r) ==
    IF r # <<>> /\ r[1] = "."
    THEN parse_exponent(neg, ip, take_digits(Tail(r)), skip_digits(Tail(r)))
    ELSE parse_exponent(neg, ip, <<>>, r)

parse_number(neg, body) ==
    parse_fraction(neg, take_digits(body), skip_digits(body))

lit_inf == <<"i", "n", "f">>
lit_infinity == <<"i", "n", "f", "i", "n", "i", "t", "y">>
lit_nan == <<"n", "a", "n">>

parse_signed(neg, body) ==
    IF body = <<>> THEN ParseErr
    ELSE IF Lower(body) \in {lit_inf, lit_infinity} THEN ParseOk(F64Inf(neg))
    ELSE IF Lower(body) = lit_nan THEN ParseOk(F64NaN(neg))
    ELSE parse_number(neg, body)

parse_f64(s) ==
    IF s = <<>> THEN ParseErr
    ELSE IF s[1] \in {"+", "-"} THEN parse_signed(s[1] = "-", Tail(s))
    ELSE parse_signed(FALSE, s)

----------------------------------------------------------------------------
(* enum Swap (lib.rs:23-26), enum Alias (lib.rs:31-34)                     *)

SwapFloat(f) == [tag |-> "Float", f |-> f]
SwapNone == [tag |-> "None"]
AliasString(s) == [tag |-> "String", s |-> s]
AliasNone == [tag |-> "None"]

\* struct ZoneMemStat (lib.rs:43-59)
ZoneMemStat(zonename, alias, rss, cap, nover, pout, swap) ==
    [zonename |-> zonename, alias |-> alias, rss |-> rss, cap |-> cap,
     nover |-> nover, pout |-> pout, swap |-> swap]

\* a call that returned v / a call that panicked
Returned(v) == [panicked |-> FALSE, val |-> v]
Panicked == [panicked |-> TRUE]

tok_dash == <<"-">>
tok_global == <<"g","l","o","b","a","l">>

\* the match at lib.rs:87-90, on the Result of the parse
swap_match(r) == IF r.ok THEN SwapFloat(r.val) ELSE SwapNone

swap_of(tok) == swap_match(parse_f64(tok))

\* alias_of with the bug of testing only the first character
alias_of_starts_with(tok) ==
    IF tok[1] = "-" THEN AliasNone ELSE AliasString(tok)

\* the match at lib.rs:92-95
alias_of(tok) == IF tok = tok_dash THEN AliasNone ELSE AliasString(tok)

\* build with the bug of a swap field that must parse, as the others must
build_swap_expected(zonename, alias, rss, cap, nover, pout, swap) ==
    IF rss.ok /\ cap.ok /\ nover.ok /\ pout.ok /\ swap # SwapNone
    THEN Returned(ZoneMemStat(zonename, alias, rss.val, cap.val, nover.val,
                              pout.val, swap))
    ELSE Panicked

\* the struct expression at lib.rs:97-105: expect() panics on an Err
build(zonename, alias, rss, cap, nover, pout, swap) ==
    IF rss.ok /\ cap.ok /\ nover.ok /\ pout.ok
    THEN Returned(ZoneMemStat(zonename, alias, rss.val, cap.val, nover.val,
                              pout.val, swap))
    ELSE Panicked

\* lib.rs:87-105 on the collected fields.  splitvec[6] is indexed first
\* (line 87), so fewer than 7 fields is an index-out-of-bounds panic; fields
\* beyond the seventh are never read.  (TLA+ sequences count from 1.)
parse_fields(splitvec) ==
    IF Len(splitvec) < 7 THEN Panicked
    ELSE build(splitvec[1], alias_of(splitvec[2]), parse_u64(splitvec[3]),
               parse_u64(splitvec[4]), parse_u32(splitvec[5]),
               parse_u64(splitvec[6]), swap_of(splitvec[7]))

\* fn parse_line (lib.rs:83-106)
parse_line(s) == parse_fields(split_whitespace(s))

----------------------------------------------------------------------------
(* Lines of text given to parse_line and written by the child.             *)

tok_uuid == <<"6","d","c","5">>
tok_amon0 == <<"a","m","o","n","0">>
tok_dashdash == <<"-","-">>
tok_dash_a == <<"-","a">>
tok_850 == <<"8","5","0">>
tok_007 == <<"0","0","7">>
tok_0 == <<"0">>
tok_3 == <<"3">>
tok_1024 == <<"1","0","2","4">>
tok_plus174 == <<"+","1","7","4">>
tok_u32max == <<"4","2","9","4","9","6","7","2","9","5">>
tok_u32over == <<"4","2","9","4","9","6","7","2","9","6">>
tok_u64max == <<"1","8","4","4","6","7","4","4","0","7","3","7","0","9","5","5","1","6","1","5">>
tok_u64over == <<"1","8","4","4","6","7","4","4","0","7","3","7","0","9","5","5","1","6","1","6">>
tok_minus1 == <<"-","1">>
tok_1x == <<"1","x">>
tok_plus == <<"+">>
tok_7_11193 == <<"7",".","1","1","1","9","3">>
tok_7 == <<"7">>
tok_nan == <<"N","a","N">>
tok_1e2 == <<"1","e","2">>
tok_dot == <<".">>
tok_neg_half == <<"-",".","5","0">>
tok_inf == <<"i","n","f">>
tok_1e == <<"1","e">>
tok_extra == <<"x">>

RECURSIVE JoinFrom(_, _, _)
JoinFrom(toks, i, sep) ==
    IF i > Len(toks) THEN <<>>
    ELSE IF i = Len(toks) THEN toks[i]
    ELSE toks[i] \o sep \o JoinFrom(toks, i + 1, sep)

Join(toks, st) == st.pre \o JoinFrom(toks, 1, st.sep) \o st.post

\* single spaces, as the tool separates columns; and padded columns with a
\* tab, leading and trailing blanks
Tight == [pre |-> <<>>, sep |-> <<" ">>, post |-> <<>>]
Padded == [pre |-> <<" ", " ">>, sep |-> <<" ", "\t", " ">>, post |-> <<" ">>]
WsStyles == {Tight, Padded}

ZoneToks == {tok_global, tok_uuid}
AliasToks == {tok_dash, tok_amon0, tok_dash_a}
RssToks == {tok_850, tok_u64max, tok_u64over}
CapToks == {tok_0, tok_plus174, tok_1x}
NoverToks == {tok_0, tok_u32max, tok_u32over, tok_minus1}
PoutToks == {tok_3, tok_plus}
SwapToks == {tok_dash, tok_7_11193, tok_nan, tok_1e2, tok_dot, tok_neg_half}

ProductRows ==
    {<<z, a, r, c, n, p, s>> :
        z \in ZoneToks, a \in AliasToks, r \in RssToks, c \in CapToks,
        n \in NoverToks, p \in PoutToks, s \in SwapToks}

\* the second test line of the crate (lib.rs:145), with every token of the
\* model tried in every column
BaseRow == <<tok_uuid, tok_amon0, <<"1","7","4">>, tok_1024, tok_0, tok_0,
             tok_7_11193>>

AllToks ==
    ZoneToks \cup AliasToks \cup RssToks \cup CapToks \cup NoverToks
    \cup PoutToks \cup SwapToks
    \cup {tok_dashdash, tok_007, tok_7, tok_inf, tok_1e, tok_1024}

StarRows == {[BaseRow EXCEPT ![i] = t] : i \in 1..7, t \in AllToks}

TokenRows == ProductRows \cup StarRows

Extra(n) == [i \in 1..n |-> tok_extra]

\* what the child may write on stdout: the lines of the crate's tests
\* (lib.rs:126, 145), a line cut to 3 fields, a line whose NOVER is 2^32,
\* and a line with an eighth field
line_gz ==
    Join(<<tok_global, tok_dash, tok_850, <<"1","6","7","7","7","2","1","5">>,
           tok_0, tok_0, tok_dash>>, Padded)
line_ngz ==
    Join(<<tok_uuid, tok_amon0, <<"1","7","4">>, tok_1024, tok_0, tok_0,
           tok_7_11193>>, Padded)
line_short == Join(<<tok_uuid, tok_amon0, tok_850>>, Tight)
line_nover == 
    Join(<<tok_uuid, tok_dash, tok_850, tok_1024, tok_u32over, tok_3,
           tok_7>>, Tight)
line_eight ==
    Join(<<tok_uuid, tok_dash_a, tok_3, tok_0, tok_3, tok_850, tok_7,
           tok_extra>>, Tight)

StreamLines == {line_gz, line_ngz, line_short, line_nover, line_eight}

----------------------------------------------------------------------------
(* One call of parse_line.                                                 *)

NotCalled == [called |-> FALSE]
Called(out) == [called |-> TRUE, out |-> out]

CallParseLine ==
    /\ ~parsed.called
    /\ parsed' = Called(parse_line(x))
    /\ UNCHANGED <<fields, x, statVars>>

----------------------------------------------------------------------------
(* One invocation of stat() (lib.rs:110-118) around get_state              *)
(* (lib.rs:62-80), and the zonememstat child it spawns.                    *)
(*                                                                         *)
(* pc:    "start"     stat() called, nothing spawned yet                   *)
(*        "loop"      suspended in procstream.next().await (line 72)       *)
(*        "returned"  stat() gave its caller a Vec                         *)
(*        "panicked"  a panic unwound through get_state and stat           *)
(*        "abandoned" the caller dropped the future while it was suspended *)
(* child: "none", "running", "zombie" (exited, not waited for), "reaped"   *)

NotGiven == [given |-> FALSE]
Gave(v) == [given |-> TRUE, v |-> v]

Ok(v) == [ok |-> TRUE, val |-> v]
Err == [ok |-> FALSE]

\* Command::new(zms).args(&args) (lib.rs:68-69) never calls
\* kill_on_drop(true); tokio's default is false
kill_on_drop == FALSE

\* dropping the ProcessLineStream, and the tokio Child in it, while the
\* child has not been waited for: the child is killed only under
\* kill_on_drop, and is not waited for by the drop in either case
DropStream(c) == IF c = "running" /\ kill_on_drop THEN "zombie" ELSE c

\* the match of stat() (lib.rs:111-117)
stat_match(r) == IF r.ok THEN r.val ELSE <<>>

\* Item::stdout() (lib.rs:73): Some(line) for a stdout item, None for a
\* stderr item and for the exit status
stdout(item) == IF item.kind = "Stdout" THEN Ok(item.line) ELSE Err

StdoutItem(l) == [kind |-> "Stdout", line |-> l]
StderrItem == [kind |-> "Stderr", line |-> <<"e">>]
DoneItem(st) == [kind |-> "Done", line |-> <<>>, status |-> st]

\* push with the bug of inserting at the front
push_front(res, r) ==
    IF r.panicked THEN Panicked ELSE Returned(<<r.val>> \o res)

\* push with the bug of skipping a line that does not parse
push_skip_malformed(res, r) ==
    IF r.panicked THEN Returned(res) ELSE Returned(Append(res, r.val))

\* result.push(parse_line(l)) (lib.rs:74): a panic of parse_line unwinds
push(res, r) == IF r.panicked THEN Panicked ELSE Returned(Append(res, r.val))

\* the match at lib.rs:73-76 on the Option that Item::stdout() gave
stdout_match(res, l) ==
    IF l.ok THEN push(res, parse_line(l.val)) ELSE Returned(res)

\* the body of the while loop (lib.rs:73-76) on one stream item: the
\* vector afterwards, or a panic
loop_body(res, item) == stdout_match(res, stdout(item))

\* SpawnFail with the bug of stat() unwrapping the Result of get_state
SpawnFail_unwrap ==
    /\ pc = "start"
    /\ pc' = "panicked"
    /\ UNCHANGED <<child, outPipe, errPipe, written, read, nerr, errSeen,
                   status, result, ret, parseVars>>

\* try_into() is an Err (lib.rs:68-70): `?` returns it from get_state, and
\* stat() turns it into an empty Vec
SpawnFail ==
    /\ pc = "start"
    /\ pc' = "returned"
    /\ ret' = Gave(stat_match(Err))
    /\ UNCHANGED <<child, outPipe, errPipe, written, read, nerr, errSeen, status,
                   result, parseVars>>

\* try_into() is Ok: the child runs, with stdout and stderr piped
SpawnOk ==
    /\ pc = "start"
    /\ pc' = "loop"
    /\ child' = "running"
    /\ UNCHANGED <<outPipe, errPipe, written, read, nerr, errSeen, status,
                   result, ret, parseVars>>

ChildWriteStdout(l) ==
    /\ child = "running"
    /\ pc = "loop"
    /\ Len(written) < MaxStdout
    /\ outPipe' = Append(outPipe, l)
    /\ written' = Append(written, l)
    /\ UNCHANGED <<pc, child, errPipe, read, nerr, errSeen, status, result, ret,
                   parseVars>>

ChildWriteStderr ==
    /\ child = "running"
    /\ pc = "loop"
    /\ nerr < MaxStderr
    /\ errPipe' = Append(errPipe, StderrItem)
    /\ nerr' = nerr + 1
    /\ UNCHANGED <<pc, child, outPipe, written, read, errSeen, status,
                   result, ret, parseVars>>

\* the child exits, which closes its ends of both pipes
ChildExit(st) ==
    /\ child = "running"
    /\ child' = "zombie"
    /\ status' = st
    /\ UNCHANGED <<pc, outPipe, errPipe, written, read, nerr, errSeen,
                   result, ret, parseVars>>

\* the loop has run its body on one item: the vector is the new one, or
\* the panic unwinds and drops result and procstream
Iterate(after) ==
    IF after.panicked
    THEN /\ pc' = "panicked"
         /\ child' = DropStream(child)
         /\ result' = <<>>
    ELSE /\ result' = after.val
         /\ UNCHANGED <<pc, child>>

\* next() yields the oldest unread stdout line
NextStdout ==
    /\ pc = "loop"
    /\ outPipe # <<>>
    /\ Iterate(loop_body(result, StdoutItem(Head(outPipe))))
    /\ outPipe' = IF pc' = "panicked" THEN <<>> ELSE Tail(outPipe)
    /\ errPipe' = IF pc' = "panicked" THEN <<>> ELSE errPipe
    /\ read' = Append(read, Head(outPipe))
    /\ UNCHANGED <<written, nerr, errSeen, status, ret, parseVars>>

\* next() yields the oldest unread stderr line
NextStderr ==
    /\ pc = "loop"
    /\ errPipe # <<>>
    /\ Iterate(loop_body(result, Head(errPipe)))
    /\ outPipe' = IF pc' = "panicked" THEN <<>> ELSE outPipe
    /\ errPipe' = IF pc' = "panicked" THEN <<>> ELSE Tail(errPipe)
    /\ errSeen' = TRUE
    /\ UNCHANGED <<written, read, nerr, status, ret, parseVars>>

\* the loop is over: get_state returns Ok(result) (lib.rs:79) and stat()
\* gives the Vec to its caller
Finish(after) ==
    IF after.panicked
    THEN /\ pc' = "panicked"
         /\ result' = <<>>
         /\ UNCHANGED ret
    ELSE /\ pc' = "returned"
         /\ result' = after.val
         /\ ret' = Gave(stat_match(Ok(after.val)))

\* both pipes are at end of file and the child has exited: the stream waits
\* for the child and yields Item::Done(status), then None, which ends the
\* loop
NextDone ==
    /\ pc = "loop"
    /\ outPipe = <<>>
    /\ errPipe = <<>>
    /\ child = "zombie"
    /\ child' = "reaped"
    /\ Finish(loop_body(result, DoneItem(status)))
    /\ UNCHANGED <<outPipe, errPipe, written, read, nerr, errSeen, status,
                   parseVars>>

\* the caller drops the future of stat() at its only suspension point
Abandon ==
    /\ pc = "loop"
    /\ pc' = "abandoned"
    /\ child' = DropStream(child)
    /\ outPipe' = <<>>
    /\ errPipe' = <<>>
    /\ result' = <<>>
    /\ UNCHANGED <<written, read, nerr, errSeen, status, ret, parseVars>>

\* a child dropped without having been waited for is waited for by the
\* runtime at some later time, if the runtime is still running
OrphanReap ==
    /\ pc \in {"panicked", "abandoned"}
    /\ child = "zombie"
    /\ child' = "reaped"
    /\ UNCHANGED <<pc, outPipe, errPipe, written, read, nerr, errSeen,
                   status, result, ret, parseVars>>

----------------------------------------------------------------------------
(* Specifications.                                                         *)

StatInit ==
    /\ pc = "start"
    /\ child = "none"
    /\ outPipe = <<>>
    /\ errPipe = <<>>
    /\ written = <<>>
    /\ read = <<>>
    /\ nerr = 0
    /\ errSeen = FALSE
    /\ status = -1
    /\ result = <<>>
    /\ ret = NotGiven

\* stat() is called once
Init ==
    /\ fields = <<>>
    /\ x = <<>>
    /\ parsed = NotCalled
    /\ StatInit

Next ==
    \/ SpawnFail
    \/ SpawnOk
    \/ \E l \in StreamLines : ChildWriteStdout(l)
    \/ ChildWriteStderr
    \/ \E st \in 0..MaxStatus : ChildExit(st)
    \/ NextStdout
    \/ NextStderr
    \/ NextDone
    \/ Abandon
    \/ OrphanReap

Spec == Init /\ [][Next]_vars

\* parse_line is called once, on a row of TokenRows cut to its first n
\* fields or followed by fields beyond the seventh, in either whitespace style
InitParse ==
    /\ \E row \in TokenRows, n \in 0..MaxFields, st \in WsStyles :
          /\ fields = SubSeq(row \o Extra(MaxFields - 7), 1, n)
          /\ x = Join(fields, st)
    /\ parsed = NotCalled
    /\ StatInit

NextParse == CallParseLine

SpecParse == InitParse /\ [][NextParse]_vars

----------------------------------------------------------------------------
(* What the properties are stated with: the unsigned decimal a token       *)
(* denotes, read off the token as a whole, and the records the crate's     *)
(* tests expect of their lines.                                            *)

Unsigned(tok) == IF tok # <<>> /\ tok[1] = "+" THEN Tail(tok) ELSE tok

IsUnsigned(tok) ==
    /\ Unsigned(tok) # <<>>
    /\ \A i \in 1..Len(Unsigned(tok)) : Unsigned(tok)[i] \in DigitChars

UnsignedValue(tok) ==
    IF StripLeadingZeros(ToDigits(Unsigned(tok))) = <<>> THEN <<0>>
    ELSE StripLeadingZeros(ToDigits(Unsigned(tok)))

FitsIn(tok, max) == IsUnsigned(tok) /\ ~BigGreater(UnsignedValue(tok), max)

\* fields 2, 3, 4 and 5 each parse as the type of their struct member
NumbersFit(f) ==
    /\ FitsIn(f[3], U64_MAX)
    /\ FitsIn(f[4], U64_MAX)
    /\ FitsIn(f[5], U32_MAX)
    /\ FitsIn(f[6], U64_MAX)

\* tokens of the model that are no floating-point number
NotFloatToks ==
    {tok_dash, tok_dashdash, tok_dash_a, tok_amon0, tok_global, tok_uuid,
     tok_1x, tok_plus, tok_dot, tok_1e, tok_extra}

f64_7_11193 ==
    [kind |-> "num", neg |-> FALSE, digits |-> <<7,1,1,1,9,3>>, exp |-> -5]

\* lib.rs:129-137, lib.rs:148-156
rec_gz ==
    ZoneMemStat(tok_global, AliasNone, <<8,5,0>>, <<1,6,7,7,7,2,1,5>>, <<0>>,
                <<0>>, SwapNone)
rec_ngz ==
    ZoneMemStat(tok_uuid, AliasString(tok_amon0), <<1,7,4>>, <<1,0,2,4>>,
                <<0>>, <<0>>, SwapFloat(f64_7_11193))

WellFormedLines == {line_gz, line_ngz}

Expected(l) == IF l = line_gz THEN rec_gz ELSE rec_ngz

AllWellFormed(ls) == \A i \in 1..Len(ls) : ls[i] \in WellFormedLines

ExpectedVec(ls) == [i \in 1..Len(ls) |-> Expected(ls[i])]

\* fewer than 7 fields, or a field 2, 3, 4 or 5 that does not parse
Malformed(l) ==
    \/ Len(split_whitespace(l)) < 7
    \/ ~NumbersFit(split_whitespace(l))

Ended == pc \in {"returned", "panicked", "abandoned"}

----------------------------------------------------------------------------
(* Properties.                                                             *)

\* C1: while the loop runs on well-formed lines, the vector holds the record
\* of each stdout line read, in the order read; and when stat() returns
\* after a launch, every line the child wrote has been read and the Vec
\* returned is the records of those lines in the order written, whatever
\* stderr lines came between them and whatever the exit status.
C1_RecordsInEmissionOrder ==
    /\ (pc = "loop" /\ AllWellFormed(read))
          => result = ExpectedVec(read)
    /\ (pc = "returned" /\ child # "none" /\ AllWellFormed(written))
          => /\ read = written
             /\ ret = Gave(ExpectedVec(written))

C1_Witness ==
    /\ pc = "returned"
    /\ written = <<line_gz, line_ngz>>
    /\ errSeen
    /\ status = 1
    /\ ret = Gave(<<rec_gz, rec_ngz>>)

\* C2: when the launch fails, stat() returns an empty Vec: no panic, no
\* record.
C2_LaunchFailureGivesEmptyVec ==
    (pc # "start" /\ child = "none") => (pc = "returned" /\ ret = Gave(<<>>))

C2_Witness == pc = "returned" /\ child = "none" /\ ret = Gave(<<>>)

\* C3: once a malformed stdout line has been read, at whatever position,
\* the invocation has panicked and stat() gives its caller no Vec.
C3_MalformedLineAborts ==
    (\E i \in 1..Len(read) : Malformed(read[i]))
        => (pc = "panicked" /\ ~ret.given /\ result = <<>>)

C3_Witness ==
    /\ pc = "panicked"
    /\ read = <<line_gz, line_nover>>
    /\ ~ret.given

\* C4, as stated: a line of exactly 7 fields whose fields 2 to 5 are
\* unsigned decimals parses, to a record with the values of those fields,
\* whatever the values: here every value that fits 64 bits, which takes in
\* the NOVER that fits 64 bits but not 32.
C4_AnyUnsignedValueParses ==
    (/\ parsed.called
     /\ Len(fields) = 7
     /\ \A i \in 3..6 : FitsIn(fields[i], U64_MAX))
        => /\ ~parsed.out.panicked
           /\ parsed.out.val.rss = UnsignedValue(fields[3])
           /\ parsed.out.val.cap = UnsignedValue(fields[4])
           /\ parsed.out.val.nover = UnsignedValue(fields[5])
           /\ parsed.out.val.pout = UnsignedValue(fields[6])

\* C4, amended: a line of exactly 7 fields, under any whitespace, whose
\* fields 2, 3 and 5 are unsigned decimals of at most 2^64 - 1 and whose
\* field 4 is one of at most 2^32 - 1 parses, to a record with zonename =
\* field 0 and rss, cap, nover, pout the values of fields 2 to 5; and a
\* field 4 above 2^32 - 1 makes parse_line panic.
C4_ValuesWithinTheirTypesParse ==
    /\ (parsed.called /\ Len(fields) = 7 /\ NumbersFit(fields))
          => /\ ~parsed.out.panicked
             /\ parsed.out.val.zonename = fields[1]
             /\ parsed.out.val.rss = UnsignedValue(fields[3])
             /\ parsed.out.val.cap = UnsignedValue(fields[4])
             /\ parsed.out.val.nover = UnsignedValue(fields[5])
             /\ parsed.out.val.pout = UnsignedValue(fields[6])
    /\ (/\ parsed.called
        /\ Len(fields) = 7
        /\ IsUnsigned(fields[5])
        /\ ~FitsIn(fields[5], U32_MAX))
          => parsed.out.panicked

C4_Witness ==
    /\ parsed.called
    /\ Len(fields) = 7
    /\ x[1] = " "
    /\ fields[3] = tok_u64max
    /\ fields[4] = tok_0
    /\ fields[5] = tok_u32max
    /\ ~parsed.out.panicked
    /\ parsed.out.val.cap = <<0>>
    /\ parsed.out.val.nover = U32_MAX

\* C5: on a line whose other fields are valid, field 6 never fails the
\* parse: a token that is no floating-point number gives Swap::None, and a
\* token that is one gives Swap::Float of its value.
C5_SwapNeverFails ==
    (parsed.called /\ Len(fields) = 7 /\ NumbersFit(fields))
        => /\ ~parsed.out.panicked
           /\ fields[7] \in NotFloatToks
                 => parsed.out.val.swap = SwapNone
           /\ fields[7] \notin NotFloatToks
                 => /\ parse_f64(fields[7]).ok
                    /\ parsed.out.val.swap
                          = SwapFloat(parse_f64(fields[7]).val)
           /\ fields[7] = tok_7_11193
                 => parsed.out.val.swap = SwapFloat(f64_7_11193)
           /\ fields[7] = tok_nan
                 => parsed.out.val.swap = SwapFloat(F64NaN(FALSE))

C5_Witness ==
    /\ parsed.called
    /\ Len(fields) = 7
    /\ fields[1] = tok_global
    /\ fields[7] = tok_dash
    /\ ~parsed.out.panicked
    /\ parsed.out.val.swap = SwapNone

\* C6: in a record that parse_line returns, alias is Alias::None exactly
\* when field 1 is the token "-", and Alias::String of field 1 otherwise;
\* and no field 1 makes a line with valid other fields fail.
C6_AliasNoneIffDash ==
    /\ (parsed.called /\ ~parsed.out.panicked)
          => /\ (parsed.out.val.alias = AliasNone) <=> (fields[2] = <<"-">>)
             /\ fields[2] # <<"-">>
                   => parsed.out.val.alias = AliasString(fields[2])
    /\ (parsed.called /\ Len(fields) = 7 /\ NumbersFit(fields))
          => ~parsed.out.panicked

C6_Witness ==
    /\ parsed.called
    /\ ~parsed.out.panicked
    /\ fields[2] = tok_dash_a
    /\ parsed.out.val.alias = AliasString(tok_dash_a)

\* C7: when the invocation is over (returned, panicked or abandoned), its
\* child is neither running nor an exited process nobody has waited for.
C7_NoChildLeftBehind == Ended => child \in {"none", "reaped"}

\* C8: parse_line returns a record only for a line of exactly 7 fields.
C8_RecordOnlyFromSevenFields ==
    (parsed.called /\ ~parsed.out.panicked) => Len(fields) = 7

\* C9: when the child exits with a non-zero status, what stat() gives its
\* caller differs from what it gives for the same lines and status zero,
\* which is the Vec of their records.
C9_ExitStatusIsVisible ==
    (/\ pc = "returned"
     /\ status > 0
     /\ written # <<>>
     /\ AllWellFormed(written))
        => ret # Gave(ExpectedVec(written))

\* C10: provided the child, whenever launched, wrote the global zone's line
\* first, every Vec that stat() returns has the global zone's record as
\* element 0.
C10_GlobalZoneFirst ==
    (/\ ret.given
     /\ child # "none" => (written # <<>> /\ written[1] = line_gz))
        => /\ ret.v # <<>>
           /\ ret.v[1].zonename = tok_global

====
